---- MODULE Spec2Model ----
(***************************************************************************)
(* The job lifecycle engine of TubeLoader (server/routes.ts): one download *)
(* job, the pipeline runs started for it by submit and retry               *)
(* (processDownload, autoUploadToNas), the progress callbacks of           *)
(* downloadVideo, the manual upload-to-nas requests, and cancel.           *)
(*                                                                         *)
(* Every storage call of the code is awaited, and every await is a point   *)
(* where another task may run: a task is a record with a position (pc),    *)
(* and one action of the model is one storage call or one HTTP exchange    *)
(* together with the synchronous code that follows it up to the next       *)
(* await.  cancel and retry read the row only to check that it exists and  *)
(* belongs to the caller, which nothing in this model changes, so each is  *)
(* one action at its write.                                                *)
(*                                                                         *)
(* broadcastToUser is part of the action whose write precedes it: received *)
(* holds the last message sent to each WebSocket channel, clients is the   *)
(* registry of channels by identity and ready the readyState of a channel. *)
(* With no channel registered a broadcast sends nothing.  wire holds the   *)
(* last PATCH exchange for whoever listens on it.                          *)
(*                                                                         *)
(* Sizes are in abstract units: the artifact has FileSize units and a      *)
(* chunk has CHUNK_SIZE units.                                             *)
(*                                                                         *)
(* Spec is the full lifecycle of the job for one accepted request body.    *)
(* FetchSpec is the fetch side alone, for every request body and with the  *)
(* artifacts of other jobs on disk for autoCleanupIfNeeded to reclaim.     *)
(* ChannelSpec is the channel registry: connections with and without an    *)
(* identity that open, go stale and close while jobs of two users are      *)
(* written.  ProgressSpec is the fetch with its progress callbacks, cancel *)
(* and delete, seen from one open channel.  UploadSpec is the end of a     *)
(* fetch with the auto-upload and a manual upload, seen from one open      *)
(* channel and from the wire; UploadLiveSpec adds weak fairness of every   *)
(* upload step, as the event loop resumes every task whose await has       *)
(* settled.  FaultSpec is UploadSpec with the storage writes of the upload *)
(* loops throwing; in every other specification a storage call returns.    *)
(* StrangerSpec is the fetch side with the five /api/jobs/:id requests     *)
(* sent by a user who does not own the job.  StoreSpec is the row alone    *)
(* under updateDownloadJob.                                                *)
(*                                                                         *)
(* The closes field of a task counts the closeSync calls of its upload on  *)
(* the descriptor openSync returned.                                       *)
(***************************************************************************)
EXTENDS Integers, Sequences, FiniteSets, TLC

\* ----------------------------------------------------------------- bounds
MaxRetry == 1       \* retry requests the model issues
MaxCancel == 1      \* cancel requests the model issues
MaxManual == 1      \* manual upload-to-nas requests the model issues
MaxActive == 3      \* tasks (runs, uploads, callbacks) in flight at once
CHUNK_SIZE == 3     \* routes.ts:958 has 5 MiB; here three units
FileSize == 4       \* size of the artifact downloadVideo produces
MaxHdr == 5         \* largest Upload-Offset value the server answers with

Runs == 1..(MaxRetry + 1)
Manuals == 1..MaxManual
ProgressVals == {25, 40}

\* --------------------------------------------------------------- messages
\* errorMessage values; the text of the code with the interpolated value.
NoMsg == <<>>
CancelMsg == <<"Cancelled by user">>
FetchErrMsg == <<"yt-dlp failed">>
FetchTimeoutMsg == <<"Download timed out">>
\* The errors downloadVideo rejects with, by number.
FetchErrors == <<FetchErrMsg, FetchTimeoutMsg>>
CreateFailedMsg(st) == <<"TUS create failed: ", ToString(st)>>
NoLocationMsg == <<"No upload URL returned">>
PatchFailedMsg(st) == <<"TUS patch failed: ", ToString(st)>>
NetworkErrMsg == <<"fetch failed">>
StorageErrMsg == <<"database is locked">>
UploadFailedMsg(m) == <<"Upload failed: ">> \o m

\* ------------------------------------------------------------------ state
VARIABLES
    job,        \* the download_jobs row of the job, or NoJob
    file,       \* the local artifact of the job exists on disk
    settings,   \* the user's settings: synologyEndpoint set, autoUploadToNas
    runs,       \* the processDownload calls, in the order they were started
    cbs,        \* the progress callbacks in flight
    manuals,    \* the upload-to-nas requests, in the order they were accepted
    outcome,    \* the task that returned in the step just taken, and why
    nCancel,    \* cancel requests so far
    nRetry,     \* retry requests so far
    others,     \* the other jobs with an artifact: owner, uploadedToNas, file
    clients,    \* the map clients: the channels registered for each identity
    ready,      \* the readyState of each channel
    received,   \* the message each channel was sent last
    wire        \* the last exchange with the endpoint, for each listener on the wire

vars == <<job, file, settings, runs, cbs, manuals, outcome, nCancel, nRetry, others,
          clients, ready, received, wire>>

NoJob == [status |-> "absent"]

Exists == job.status # "absent"

\* The user of the job, and the other jobs: one of the same user, one of
\* another user.
User == "user"
OtherIds == {"job2", "job3"}
OtherOwner(o) == IF o = "job2" THEN User ELSE "user2"

\* No other job has an artifact or is uploaded.
NoOthers == [o \in OtherIds |-> [userId |-> OtherOwner(o), uploadedToNas |-> 0, file |-> FALSE]]

\* A query for the ids of all the rows of userId.
GetAllJobIds(userId) ==
    {o \in OtherIds : others[o].userId = userId}
    \cup (IF Exists /\ job.userId = userId THEN {"job"} ELSE {})

\* storage.getUploadedToNasJobIds: the ids of the rows of userId whose
\* uploadedToNas is 1.
GetUploadedToNasJobIds(userId) ==
    {o \in OtherIds : others[o].userId = userId /\ others[o].uploadedToNas = 1}
    \cup (IF Exists /\ job.userId = userId /\ job.uploadedToNas = 1 THEN {"job"} ELSE {})

\* ---------------------------------------------------------- request bodies
\* A url is the sequence of the pieces of its text; "https://" first makes
\* it a URL for z.string().url().
Urls ==
    { <<"https://", "www.", "youtube.com", "/watch?v=a">>,
      <<"https://", "youtu.be", "/a">>,
      <<"https://", "vimeo.com", "/1">>,
      <<"https://", "vimeo.com", "/1?from=", "youtube.com">>,
      <<"youtube.com", "/watch?v=a">> }

Absent == "undefined"
Null == "null"

\* The bodies POST /api/download is sent.
Requests == [url : Urls, format : {"audio", "video", "gif"}, quality : {"720p", "", Absent}]

\* The body the client sends in the full model.
GoodRequest ==
    [url |-> <<"https://", "www.", "youtube.com", "/watch?v=a">>,
     format |-> "video", quality |-> "720p"]

\* String.prototype.includes over the pieces of the text.
Includes(url, piece) == \E i \in 1..Len(url) : url[i] = piece

IsUrl(url) == Len(url) > 0 /\ url[1] = "https://"

\* downloadRequestSchema.parse accepts the body.
Validates(req) ==
    /\ IsUrl(req.url)
    /\ Includes(req.url, "youtube.com") \/ Includes(req.url, "youtu.be")
    /\ req.format \in {"audio", "video"}

\* validatedData.quality || null
QualityOrNull(q) == IF q = Absent \/ q = "" THEN Null ELSE q

\* storage.createDownloadJob with the values of POST /api/download.  A null
\* filePath is FALSE and a null fileSize is 0.
NewJob(req) ==
    [id |-> "job", userId |-> "user",
     youtubeUrl |-> req.url, format |-> req.format, quality |-> QualityOrNull(req.quality),
     status |-> "queued", progress |-> 0, errorMessage |-> NoMsg,
     filePath |-> FALSE, fileSize |-> 0, uploadedToNas |-> 0]

\* An update that adds the progress to the row's.
UpdateAccumulates(j, updates) ==
    IF j.status = "absent" THEN j
    ELSE [f \in DOMAIN j |->
            IF f = "progress" /\ f \in DOMAIN updates THEN j[f] + updates[f]
            ELSE IF f \in DOMAIN updates THEN updates[f] ELSE j[f]]

\* An update that inserts the row when there is none.
UpsertDownloadJob(j, updates) ==
    LET row == IF j.status = "absent" THEN NewJob(GoodRequest) ELSE j
    IN [f \in DOMAIN row |-> IF f \in DOMAIN updates THEN updates[f] ELSE row[f]]

\* storage.updateDownloadJob: the fields of updates overwrite the row's;
\* a row that does not exist is left absent.
UpdateDownloadJob(j, updates) ==
    IF j.status = "absent" THEN j
    ELSE [f \in DOMAIN j |-> IF f \in DOMAIN updates THEN updates[f] ELSE j[f]]

\* ------------------------------------------------------------ the channels
\* The WebSocket connections there can be, and the identities a connection
\* supplies in its url: a user's id, the empty text, or none.
Channels == {"ws1", "ws2"}
Identities == {User, "user2"}
ConnectIds == Identities \cup {"", Null}

\* if (userId)
Truthy(id) == id \notin {"", Null}

\* clients is a map: its keys are the domain of the function.
NoClients == [u \in {} |-> {}]

\* clients.get(userId), the empty set for undefined.
ClientsOf(userId) == IF userId \in DOMAIN clients THEN clients[userId] ELSE {}

\* The messages of the channel: job_update with the row, and with the ETA of
\* an upload's chunk; job_deleted with the id.  The speed labels are left out.
NoEvent == [type |-> "none"]
JobUpdate(row) == [type |-> "job_update", job |-> row]
ProgressUpdate(row, eta) == [type |-> "job_update", job |-> row, eta |-> eta]
JobDeleted(jobId) == [type |-> "job_deleted", jobId |-> jobId]

\* JSON.stringify: a key whose value is undefined (the row updateDownloadJob
\* returns for an id that has no row) is left out.
Stringify(data) ==
    IF "job" \in DOMAIN data /\ data.job = NoJob
    THEN [f \in DOMAIN data \ {"job"} |-> data[f]]
    ELSE data

\* A broadcast to the channels of every identity.
BroadcastToAllUsers(userId, data) ==
    [ch \in Channels |->
        IF (\E u \in DOMAIN clients : ch \in clients[u]) /\ ready[ch] = "OPEN"
        THEN Stringify(data) ELSE received[ch]]

\* broadcastToUser: what each channel was sent last, after data is sent to
\* the open channels registered for userId.
BroadcastToUser(userId, data) ==
    [ch \in Channels |->
        IF ch \in ClientsOf(userId) /\ ready[ch] = "OPEN"
        THEN Stringify(data) ELSE received[ch]]

\* A connection handler that registers a connection without an identity
\* under the empty key.
ConnectRegistersAll(ch, id) ==
    /\ ready[ch] = "NONE"
    /\ ready' = [ready EXCEPT ![ch] = "OPEN"]
    /\ LET key == IF Truthy(id) THEN id ELSE ""
       IN clients' = [u \in DOMAIN clients \cup {key} |->
                        IF u = key THEN ClientsOf(key) \cup {ch} ELSE clients[u]]
    /\ UNCHANGED <<job, file, settings, runs, cbs, manuals, outcome, nCancel, nRetry,
                   others, received, wire>>

\* wss.on('connection'): the connection is open; with an identity it is
\* added to the set of that identity, which is created when it is missing.
Connect(ch, id) ==
    /\ ready[ch] = "NONE"
    /\ ready' = [ready EXCEPT ![ch] = "OPEN"]
    /\ clients' = IF Truthy(id)
                  THEN [u \in DOMAIN clients \cup {id} |->
                            IF u = id THEN ClientsOf(id) \cup {ch} ELSE clients[u]]
                  ELSE clients
    /\ UNCHANGED <<job, file, settings, runs, cbs, manuals, outcome, nCancel, nRetry,
                   others, received, wire>>

\* The closing handshake of a connection begins: it is no longer open, and
\* its close event has not been emitted yet.
GoStale(ch) ==
    /\ ready[ch] = "OPEN"
    /\ ready' = [ready EXCEPT ![ch] = "CLOSING"]
    /\ UNCHANGED <<job, file, settings, runs, cbs, manuals, outcome, nCancel, nRetry,
                   others, clients, received, wire>>

\* A removal that leaves the key of an emptied set in the map.
ClientsDeleteKeepsKey(userId, ws) ==
    IF userId \notin DOMAIN clients THEN clients
    ELSE [clients EXCEPT ![userId] = @ \ {ws}]

\* The set of userId without ws; the key goes with the last connection.
ClientsDelete(userId, ws) ==
    IF userId \notin DOMAIN clients THEN clients
    ELSE IF clients[userId] \ {ws} = {}
    THEN [u \in DOMAIN clients \ {userId} |-> clients[u]]
    ELSE [clients EXCEPT ![userId] = @ \ {ws}]

\* A close handler that leaves the registry as it is.
CloseKeepsChannel(ch) ==
    /\ ready[ch] = "CLOSING"
    /\ ready' = [ready EXCEPT ![ch] = "CLOSED"]
    /\ UNCHANGED <<job, file, settings, runs, cbs, manuals, outcome, nCancel, nRetry,
                   others, clients, received, wire>>

\* The connection is closed and its close event emitted: ws.on('close') of a
\* connection with an identity takes it out of the set of that identity.
CloseHandler(ch) ==
    /\ ready[ch] = "CLOSING"
    /\ ready' = [ready EXCEPT ![ch] = "CLOSED"]
    /\ clients' = IF \E u \in DOMAIN clients : ch \in clients[u]
                  THEN ClientsDelete(CHOOSE u \in DOMAIN clients : ch \in clients[u], ch)
                  ELSE clients
    /\ UNCHANGED <<job, file, settings, runs, cbs, manuals, outcome, nCancel, nRetry,
                   others, received, wire>>

\* Nobody listens on the wire.
NoTaps == [t \in {} |-> {}]

\* Math.round of the rational n/d, d positive: the integer below n/d + 1/2.
Round(n, d) == (2 * n + d) \div (2 * d)

\* A task: one processDownload call or one upload-to-nas request.  pc is its
\* position; offset, size and chunk are uploadOffset, fileSize and chunkSize;
\* lastP and phase are what downloadVideo reported last; http is the status
\* of the response, or the number of the error, that made the task throw;
\* closes counts the closeSync(fileHandle) calls of an upload so far.
IdleTask == [pc |-> "idle", offset |-> 0, size |-> 0, chunk |-> 0, lastP |-> 0,
             phase |-> "downloading", http |-> 0, closes |-> 0]

At(pc) == [IdleTask EXCEPT !.pc = pc]

\* The task has returned: its locals are gone.
DoneTask == At("done")

\* An upload that has returned after closeSync calls on its file handle.
Closed(closes) == [DoneTask EXCEPT !.closes = closes]

\* outcome: the kind of task ("run", "manual", "submit", "retry" or "delete")
\* that returned in the step just taken, why it returned (for a retry and a
\* delete, the status the job was in), and the HTTP status (the number of the
\* error) that made it return.
NoOutcome == [task |-> "none", how |-> "none", http |-> 0]
Returned(task, how, st) == [task |-> task, how |-> how, http |-> st]

\* The tasks in flight.
Active ==
    Cardinality({r \in Runs : runs[r].pc \notin {"idle", "done"}})
    + Cardinality({m \in Manuals : manuals[m].pc \notin {"idle", "done"}})
    + Cardinality(cbs)

Init ==
    /\ job = NoJob
    /\ file = FALSE
    /\ settings \in [endpoint : BOOLEAN, autoUpload : BOOLEAN]
    /\ runs = [r \in Runs |-> IdleTask]
    /\ cbs = {}
    /\ manuals = [m \in Manuals |-> IdleTask]
    /\ outcome = NoOutcome
    /\ nCancel = 0
    /\ nRetry = 0
    /\ others = NoOthers
    /\ clients = NoClients
    /\ ready = [ch \in Channels |-> "NONE"]
    /\ received = [ch \in Channels |-> NoEvent]
    /\ wire = NoTaps

\* The next processDownload call and the next upload-to-nas request.
NextRun ==
    CHOOSE r \in Runs : runs[r].pc = "idle" /\ \A q \in 1..(r-1) : runs[q].pc # "idle"
NextManual ==
    CHOOSE m \in Manuals : manuals[m].pc = "idle" /\ \A q \in 1..(m-1) : manuals[q].pc # "idle"

\* A handler that creates the row before it probes.
SubmitCreatesFirst(req, probed) ==
    /\ ~Exists
    /\ runs[1].pc = "idle"
    /\ IF ~Validates(req)
       THEN /\ outcome' = Returned("submit", "invalid", 400)
            /\ UNCHANGED <<job, runs>>
       ELSE IF ~probed
       THEN /\ job' = NewJob(req)
            /\ outcome' = Returned("submit", "probeFailed", 400)
            /\ UNCHANGED runs
       ELSE /\ job' = NewJob(req)
            /\ runs' = [runs EXCEPT ![1] = At("cleanup")]
            /\ outcome' = Returned("submit", "created", 200)
    /\ UNCHANGED <<file, settings, cbs, manuals, nCancel, nRetry, others, clients, ready, received, wire>>

\* POST /api/download with the body req; probed says whether getVideoInfo
\* returns or throws.  A body that does not validate and a probe that throws
\* are answered with 400.  Otherwise the row is created and processDownload
\* is called, which runs up to its first await.
SubmitRequest(req, probed) ==
    /\ ~Exists
    /\ runs[1].pc = "idle"
    /\ IF ~Validates(req)
       THEN /\ outcome' = Returned("submit", "invalid", 400)
            /\ UNCHANGED <<job, runs>>
       ELSE IF ~probed
       THEN /\ outcome' = Returned("submit", "probeFailed", 400)
            /\ UNCHANGED <<job, runs>>
       ELSE /\ job' = NewJob(req)
            /\ runs' = [runs EXCEPT ![1] = At("cleanup")]
            /\ outcome' = Returned("submit", "created", 200)
    /\ UNCHANGED <<file, settings, cbs, manuals, nCancel, nRetry, others, clients, ready, received, wire>>

\* The client of the full model submits GoodRequest.
Submit == \E probed \in BOOLEAN : SubmitRequest(GoodRequest, probed)

\* Any body is submitted.
SubmitAny == \E req \in Requests, probed \in BOOLEAN : SubmitRequest(req, probed)

\* ------------------------------------------------- the remote TUS endpoint
\* What the endpoint may answer.  A request that throws has status 0.
NoHdr == -1
CreateResponses ==
    [status : {201, 500}, location : BOOLEAN] \cup {[status |-> 0, location |-> FALSE]}
\* The Upload-Offset values of a response: back at the start, one unit short
\* of a whole chunk, and beyond the end of the file.
AckedOffsets == {0, CHUNK_SIZE - 1, MaxHdr}
PatchResponses ==
    [status : {204, 200}, hdr : AckedOffsets \cup {NoHdr}] \cup [status : {500, 0}, hdr : {NoHdr}]

\* How the create request of an upload failed, "" when it did not
\* (routes.ts 487, 495, 506 and 941, 946).
CreateFailure(resp) ==
    IF resp.status = 0 THEN "createThrew"
    ELSE IF resp.status # 201 THEN "createFailed"
    ELSE IF ~resp.location THEN "noLocation"
    ELSE ""

PatchAccepted(resp) == resp.status = 204 \/ resp.status = 200

PatchFailure(resp) == IF resp.status = 0 THEN "patchThrew" ELSE "patchRejected"

\* Math.min(CHUNK_SIZE, remainingBytes)
ChunkSize(offset, size) == IF size - offset < CHUNK_SIZE THEN size - offset ELSE CHUNK_SIZE

\* A PATCH whose body is always a whole chunk.
PatchWholeChunk(offset, size) ==
    [uploadOffset |-> offset, position |-> offset, length |-> CHUNK_SIZE]

\* The PATCH of the chunk loop: its Upload-Offset header, and the position
\* and the length of the part of the file that is its body.
PatchRequest(offset, size) ==
    [uploadOffset |-> offset, position |-> offset, length |-> ChunkSize(offset, size)]

\* What a listener has seen before the first PATCH.
NoExchange == [req |-> [uploadOffset |-> -1, position |-> -1, length |-> 0],
               status |-> 0, hdr |-> NoHdr]

\* A PATCH and its response, as every listener on the wire sees them.
Exchange(req, resp) ==
    [t \in DOMAIN wire |-> [req |-> req, status |-> resp.status, hdr |-> resp.hdr]]

\* The chunk loop's offset after an accepted PATCH (routes.ts 568-573, 988-993).
NewOffset(offset, size, resp) ==
    IF resp.hdr # NoHdr THEN resp.hdr ELSE offset + ChunkSize(offset, size)

\* An auto-upload that counts its percentage from 0.
AutoProgressFromZero(offset, size) == Round(offset * 99, size)

\* The percentage written after a chunk.
AutoUploadProgress(offset, size) == 90 + Round(offset * 9, size)
ManualUploadProgress(offset, size) == Round(offset * 99, size)

\* The durations of a PATCH, in tenths of a second.
Durations == {0, 1800, 1815}

\* etaSeconds: the bytes that remain over the speed of the chunk, which is
\* its length over its duration, of at least a tenth of a second.
EtaSeconds(remaining, chunk, tenths) ==
    Round(remaining * (IF tenths < 1 THEN 1 ELSE tenths), chunk * 10)

\* String(n): the decimal digits, after the sign of a negative number.
RECURSIVE NatStr(_)
NatStr(n) == IF n < 10 THEN <<ToString(n)>> ELSE NatStr(n \div 10) \o <<ToString(n % 10)>>
Str(n) == IF n < 0 THEN <<"-">> \o NatStr(-n) ELSE NatStr(n)

\* padStart(2, '0')
PadStart2(t) == IF Len(t) < 2 THEN <<"0">> \o t ELSE t

\* etaFormatted
EtaFormatted(s) ==
    IF s > 60
    THEN Str(s \div 60) \o <<":">> \o PadStart2(Str(s % 60))
    ELSE <<"0", ":">> \o PadStart2(Str(s))

\* ------------------------------------------------------- processDownload
\* autoCleanupIfNeeded over getUploadedToNasJobIds(userId): when the disk is
\* low, the artifacts of the user's uploaded jobs are deleted.
AutoCleanupIfNeeded(low) ==
    IF low /\ "job" \in GetUploadedToNasJobIds(User) THEN FALSE ELSE file

\* The same over the artifacts of the other jobs.
AutoCleanupOthers(low) ==
    [o \in OtherIds |->
        IF low /\ o \in GetUploadedToNasJobIds(User)
        THEN [others[o] EXCEPT !.file = FALSE]
        ELSE others[o]]

RunCleanup(r) ==
    /\ runs[r].pc = "cleanup"
    /\ \E low \in BOOLEAN :
        /\ file' = AutoCleanupIfNeeded(low)
        /\ others' = AutoCleanupOthers(low)
    /\ runs' = [runs EXCEPT ![r].pc = "setDownloading"]
    /\ outcome' = NoOutcome
    /\ UNCHANGED <<job, settings, cbs, manuals, nCancel, nRetry, clients, ready, received, wire>>

RunSetDownloading(r) ==
    /\ runs[r].pc = "setDownloading"
    /\ job' = UpdateDownloadJob(job, [status |-> "downloading", progress |-> 0])
    /\ runs' = [runs EXCEPT ![r].pc = "fetching"]
    /\ outcome' = NoOutcome
    /\ received' = BroadcastToUser(User, JobUpdate(job'))
    /\ UNCHANGED <<file, settings, cbs, manuals, nCancel, nRetry, others, clients, ready, wire>>

\* downloadVideo parses a percentage and calls the progress callback, which
\* it does not wait for.  The parser reports the maximum of the percentages
\* seen, and converting follows downloading.
FetchProgress(r) ==
    /\ runs[r].pc = "fetching"
    /\ Active < MaxActive
    /\ \E p \in ProgressVals, ph \in {"downloading", "converting"} :
        /\ p >= runs[r].lastP
        /\ runs[r].phase = "converting" => ph = "converting"
        /\ [status |-> ph, progress |-> p, pc |-> "read"] \notin cbs
        /\ cbs' = cbs \cup {[status |-> ph, progress |-> p, pc |-> "read"]}
        /\ runs' = [runs EXCEPT ![r].lastP = p, ![r].phase = ph]
    /\ outcome' = NoOutcome
    /\ UNCHANGED <<job, file, settings, manuals, nCancel, nRetry, others, clients, ready, received, wire>>

\* downloadVideo resolves: the artifact is at its path.
FetchResolve(r) ==
    /\ runs[r].pc = "fetching"
    /\ file' = TRUE
    /\ runs' = [runs EXCEPT ![r] = At("writeCompleted")]
    /\ outcome' = NoOutcome
    /\ UNCHANGED <<job, settings, cbs, manuals, nCancel, nRetry, others, clients, ready, received, wire>>

\* downloadVideo rejects: the catch of processDownload is entered.
FetchReject(r) ==
    /\ runs[r].pc = "fetching"
    /\ \E e \in 1..Len(FetchErrors) :
        runs' = [runs EXCEPT ![r] = [At("writeFailed") EXCEPT !.http = e]]
    /\ outcome' = NoOutcome
    /\ UNCHANGED <<job, file, settings, cbs, manuals, nCancel, nRetry, others, clients, ready, received, wire>>

\* The calls of the progress callback there can be.
Callbacks == [status : {"downloading", "converting"}, progress : ProgressVals,
              pc : {"read", "write"}]

\* The progress callback, first await: the row is read again.
CbRead(c) ==
    /\ c \in cbs
    /\ c.pc = "read"
    /\ cbs' = IF ~Exists \/ job.status = "failed"
              THEN cbs \ {c}
              ELSE (cbs \ {c}) \cup {[c EXCEPT !.pc = "write"]}
    /\ outcome' = NoOutcome
    /\ UNCHANGED <<job, file, settings, runs, manuals, nCancel, nRetry, others, clients, ready, received, wire>>

\* The progress callback, second await: the update is written.
CbWrite(c) ==
    /\ c \in cbs
    /\ c.pc = "write"
    /\ job' = UpdateDownloadJob(job, [status |-> c.status, progress |-> c.progress,
                                      errorMessage |-> NoMsg])
    /\ cbs' = cbs \ {c}
    /\ outcome' = NoOutcome
    /\ received' = BroadcastToUser(User, JobUpdate(job'))
    /\ UNCHANGED <<file, settings, runs, manuals, nCancel, nRetry, others, clients, ready, wire>>

RunWriteCompleted(r) ==
    /\ runs[r].pc = "writeCompleted"
    /\ job' = UpdateDownloadJob(job, [status |-> "completed", progress |-> 100,
                                      filePath |-> TRUE, fileSize |-> FileSize])
    /\ runs' = [runs EXCEPT ![r].pc = "getSettings"]
    /\ outcome' = NoOutcome
    /\ received' = BroadcastToUser(User, JobUpdate(job'))
    /\ UNCHANGED <<file, settings, cbs, manuals, nCancel, nRetry, others, clients, ready, wire>>

\* An orchestrator that uploads whenever an endpoint is set.
RunUploadsWithEndpoint(r) ==
    /\ runs[r].pc = "getSettings"
    /\ IF settings.endpoint
       THEN /\ runs' = [runs EXCEPT ![r].pc = "auRead"]
            /\ outcome' = NoOutcome
       ELSE /\ runs' = [runs EXCEPT ![r] = DoneTask]
            /\ outcome' = Returned("run", "noUpload", 0)
    /\ UNCHANGED <<job, file, settings, cbs, manuals, nCancel, nRetry, others, clients, ready, received, wire>>

\* getUserSettings: autoUploadToNas is called when the endpoint is set and
\* the preference is on; otherwise processDownload returns.
RunGetSettings(r) ==
    /\ runs[r].pc = "getSettings"
    /\ IF settings.endpoint /\ settings.autoUpload
       THEN /\ runs' = [runs EXCEPT ![r].pc = "auRead"]
            /\ outcome' = NoOutcome
       ELSE /\ runs' = [runs EXCEPT ![r] = DoneTask]
            /\ outcome' = Returned("run", "noUpload", 0)
    /\ UNCHANGED <<job, file, settings, cbs, manuals, nCancel, nRetry, others, clients, ready, received, wire>>

\* A catch that logs the error and writes nothing.
RunLogsFailure(r) ==
    /\ runs[r].pc = "writeFailed"
    /\ runs' = [runs EXCEPT ![r] = DoneTask]
    /\ outcome' = Returned("run", "fetchFailed", runs[r].http)
    /\ UNCHANGED <<job, file, settings, cbs, manuals, nCancel, nRetry, others, clients, ready, received, wire>>

\* The catch of processDownload: the row is set to failed.
RunWriteFailed(r) ==
    /\ runs[r].pc = "writeFailed"
    /\ job' = UpdateDownloadJob(job, [status |-> "failed", progress |-> 0,
                                      errorMessage |-> FetchErrors[runs[r].http]])
    /\ runs' = [runs EXCEPT ![r] = DoneTask]
    /\ outcome' = Returned("run", "fetchFailed", runs[r].http)
    /\ received' = BroadcastToUser(User, JobUpdate(job'))
    /\ UNCHANGED <<file, settings, cbs, manuals, nCancel, nRetry, others, clients, ready, wire>>

\* ------------------------------------------------------- autoUploadToNas
\* First await: the row is read; the upload goes on only for a completed
\* job whose artifact is on disk.
AuRead(r) ==
    /\ runs[r].pc = "auRead"
    /\ IF ~Exists \/ job.status # "completed"
       THEN /\ runs' = [runs EXCEPT ![r] = DoneTask]
            /\ outcome' = Returned("run", "notCompleted", 0)
       ELSE IF ~file
       THEN /\ runs' = [runs EXCEPT ![r] = DoneTask]
            /\ outcome' = Returned("run", "fileMissing", 0)
       ELSE /\ runs' = [runs EXCEPT ![r].pc = "auSetUploading", ![r].size = FileSize]
            /\ outcome' = NoOutcome
    /\ UNCHANGED <<job, file, settings, cbs, manuals, nCancel, nRetry, others, clients, ready, received, wire>>

AuSetUploading(r) ==
    /\ runs[r].pc = "auSetUploading"
    /\ job' = UpdateDownloadJob(job, [status |-> "uploading", progress |-> 90])
    /\ runs' = [runs EXCEPT ![r].pc = "auCreate"]
    /\ outcome' = NoOutcome
    /\ received' = BroadcastToUser(User, JobUpdate(job'))
    /\ UNCHANGED <<file, settings, cbs, manuals, nCancel, nRetry, others, clients, ready, wire>>

\* The create request returns.  A failure is thrown out of autoUploadToNas to
\* the catch of processDownload (routes.ts 877), which logs it and returns.
\* On success the file is opened, which throws when it is gone.
AuCreate(r) ==
    /\ runs[r].pc = "auCreate"
    /\ \E resp \in CreateResponses :
        IF CreateFailure(resp) # ""
        THEN /\ runs' = [runs EXCEPT ![r] = DoneTask]
             /\ outcome' = Returned("run", CreateFailure(resp), resp.status)
        ELSE IF ~file
        THEN /\ runs' = [runs EXCEPT ![r] = DoneTask]
             /\ outcome' = Returned("run", "openFailed", 0)
        ELSE /\ runs' = [runs EXCEPT ![r].pc = "auPatch", ![r].offset = 0]
             /\ outcome' = NoOutcome
    /\ UNCHANGED <<job, file, settings, cbs, manuals, nCancel, nRetry, others, clients, ready, received, wire>>

\* One PATCH of the chunk loop is sent and answered.  A PATCH that is not
\* accepted is thrown through the finally, which closes the file, to the
\* catch of processDownload.
AuPatch(r) ==
    /\ runs[r].pc = "auPatch"
    /\ \E resp \in PatchResponses :
        /\ IF PatchAccepted(resp)
           THEN /\ runs' = [runs EXCEPT ![r].pc = "auProgress",
                                        ![r].offset = NewOffset(@, runs[r].size, resp),
                                        ![r].chunk = ChunkSize(runs[r].offset, runs[r].size)]
                /\ outcome' = NoOutcome
           ELSE /\ runs' = [runs EXCEPT ![r] = Closed(runs[r].closes + 1)]
                /\ outcome' = Returned("run", PatchFailure(resp), resp.status)
        /\ wire' = Exchange(PatchRequest(runs[r].offset, runs[r].size), resp)
    /\ UNCHANGED <<job, file, settings, cbs, manuals, nCancel, nRetry, others, clients, ready, received>>

\* The progress of the chunk is written; then the loop test, and after
\* the loop the closeSync of the finally.
AuProgress(r) ==
    /\ runs[r].pc = "auProgress"
    /\ job' = UpdateDownloadJob(job, [status |-> "uploading",
                    progress |-> AutoUploadProgress(runs[r].offset, runs[r].size)])
    /\ received' \in {BroadcastToUser(User, ProgressUpdate(job',
            EtaFormatted(EtaSeconds(runs[r].size - runs[r].offset, runs[r].chunk, t)))) :
                t \in Durations}
    /\ runs' = [runs EXCEPT ![r].pc = IF runs[r].offset < runs[r].size
                                      THEN "auPatch" ELSE "auComplete",
                            ![r].chunk = 0,
                            ![r].closes = IF runs[r].offset < runs[r].size THEN @ ELSE @ + 1]
    /\ outcome' = NoOutcome
    /\ UNCHANGED <<file, settings, cbs, manuals, nCancel, nRetry, others, clients, ready, wire>>

\* A completion that leaves the local file in place.
AuCompleteKeepsFile(r) ==
    /\ runs[r].pc = "auComplete"
    /\ job' = UpdateDownloadJob(job, [status |-> "completed", progress |-> 100,
                                      uploadedToNas |-> 1])
    /\ runs' = [runs EXCEPT ![r] = Closed(runs[r].closes)]
    /\ outcome' = Returned("run", "uploaded", 0)
    /\ received' = BroadcastToUser(User, JobUpdate(job'))
    /\ UNCHANGED <<file, settings, cbs, manuals, nCancel, nRetry, others, clients, ready, wire>>

\* After the loop: the row is completed and the local file unlinked.
AuComplete(r) ==
    /\ runs[r].pc = "auComplete"
    /\ job' = UpdateDownloadJob(job, [status |-> "completed", progress |-> 100,
                                      uploadedToNas |-> 1])
    /\ file' = FALSE
    /\ runs' = [runs EXCEPT ![r] = Closed(runs[r].closes)]
    /\ outcome' = Returned("run", "uploaded", 0)
    /\ received' = BroadcastToUser(User, JobUpdate(job'))
    /\ UNCHANGED <<settings, cbs, manuals, nCancel, nRetry, others, clients, ready, wire>>

\* ------------------------------------------- POST /api/jobs/:id/upload-to-nas
\* The answer to a request that is refused before anything is sent or
\* written (routes.ts 428-453); 0 when the request goes on.
MuRefusal ==
    IF ~Exists THEN 404
    ELSE IF job.status # "completed" THEN 400
    ELSE IF job.uploadedToNas = 1 THEN 400
    ELSE IF ~settings.endpoint THEN 400
    ELSE IF ~file THEN 404
    ELSE 0

\* The request arrives: the row, the settings and the file are checked, and
\* the create request is sent.  A refused request is answered and leaves
\* nothing behind.
MuRequest ==
    /\ \E m \in Manuals : manuals[m].pc = "idle"
    /\ Active < MaxActive
    /\ IF MuRefusal # 0
       THEN /\ manuals' = manuals
            /\ outcome' = Returned("manual", "refused", MuRefusal)
       ELSE /\ manuals' = [manuals EXCEPT ![NextManual].pc = "muCreate",
                                          ![NextManual].size = FileSize]
            /\ outcome' = NoOutcome
    /\ UNCHANGED <<job, file, settings, runs, cbs, nCancel, nRetry, others, clients, ready, received, wire>>

\* The create request returns; a failure is answered with 400 and the row is
\* not written.
MuCreate(m) ==
    /\ manuals[m].pc = "muCreate"
    /\ \E resp \in CreateResponses :
        IF CreateFailure(resp) # ""
        THEN /\ manuals' = [manuals EXCEPT ![m] = DoneTask]
             /\ outcome' = Returned("manual", CreateFailure(resp), resp.status)
        ELSE /\ manuals' = [manuals EXCEPT ![m].pc = "muSetUploading"]
             /\ outcome' = NoOutcome
    /\ UNCHANGED <<job, file, settings, runs, cbs, nCancel, nRetry, others, clients, ready, received, wire>>

\* The row is set to uploading, the request is answered and the file opened,
\* which throws when it is gone.
MuSetUploading(m) ==
    /\ manuals[m].pc = "muSetUploading"
    /\ job' = UpdateDownloadJob(job, [status |-> "uploading", progress |-> 0])
    /\ IF ~file
       THEN /\ manuals' = [manuals EXCEPT ![m] = DoneTask]
            /\ outcome' = Returned("manual", "openFailed", 0)
       ELSE /\ manuals' = [manuals EXCEPT ![m].pc = "muPatch", ![m].offset = 0]
            /\ outcome' = NoOutcome
    /\ received' = BroadcastToUser(User, JobUpdate(job'))
    /\ UNCHANGED <<file, settings, runs, cbs, nCancel, nRetry, others, clients, ready, wire>>

\* The catch of the chunk loop is entered with the error number http: it
\* closes the file before its write.
MuCaught(m, http) ==
    [IdleTask EXCEPT !.pc = "muWriteFailed", !.http = http,
                     !.closes = manuals[m].closes + 1]

\* One PATCH of the chunk loop; a PATCH that is not accepted enters the
\* catch (routes.ts 631).
MuPatch(m) ==
    /\ manuals[m].pc = "muPatch"
    /\ \E resp \in PatchResponses :
        /\ IF PatchAccepted(resp)
           THEN manuals' = [manuals EXCEPT ![m].pc = "muProgress",
                                   ![m].offset = NewOffset(@, manuals[m].size, resp),
                                   ![m].chunk = ChunkSize(manuals[m].offset, manuals[m].size)]
           ELSE manuals' = [manuals EXCEPT ![m] = MuCaught(m, resp.status)]
        /\ outcome' = NoOutcome
        /\ wire' = Exchange(PatchRequest(manuals[m].offset, manuals[m].size), resp)
    /\ UNCHANGED <<job, file, settings, runs, cbs, nCancel, nRetry, others, clients, ready, received>>

\* A chunk loop that is left after its first chunk.
MuProgressOneChunk(m) ==
    /\ manuals[m].pc = "muProgress"
    /\ job' = UpdateDownloadJob(job, [status |-> "uploading",
                    progress |-> ManualUploadProgress(manuals[m].offset, manuals[m].size)])
    /\ received' \in {BroadcastToUser(User, ProgressUpdate(job',
            EtaFormatted(EtaSeconds(manuals[m].size - manuals[m].offset, manuals[m].chunk, t)))) :
                t \in Durations}
    /\ manuals' = [manuals EXCEPT ![m].pc = "muComplete", ![m].chunk = 0,
                                  ![m].closes = @ + 1]
    /\ outcome' = NoOutcome
    /\ UNCHANGED <<file, settings, runs, cbs, nCancel, nRetry, others, clients, ready, wire>>

\* The progress of the chunk is written; then the loop test, and after
\* the loop the closeSync of line 611.
MuProgress(m) ==
    /\ manuals[m].pc = "muProgress"
    /\ job' = UpdateDownloadJob(job, [status |-> "uploading",
                    progress |-> ManualUploadProgress(manuals[m].offset, manuals[m].size)])
    /\ received' \in {BroadcastToUser(User, ProgressUpdate(job',
            EtaFormatted(EtaSeconds(manuals[m].size - manuals[m].offset, manuals[m].chunk, t)))) :
                t \in Durations}
    /\ manuals' = [manuals EXCEPT ![m].pc = IF manuals[m].offset < manuals[m].size
                                            THEN "muPatch" ELSE "muComplete",
                                  ![m].chunk = 0,
                                  ![m].closes = IF manuals[m].offset < manuals[m].size
                                                THEN @ ELSE @ + 1]
    /\ outcome' = NoOutcome
    /\ UNCHANGED <<file, settings, runs, cbs, nCancel, nRetry, others, clients, ready, wire>>

MuComplete(m) ==
    /\ manuals[m].pc = "muComplete"
    /\ job' = UpdateDownloadJob(job, [status |-> "completed", progress |-> 100,
                                      uploadedToNas |-> 1])
    /\ file' = FALSE
    /\ manuals' = [manuals EXCEPT ![m] = Closed(manuals[m].closes)]
    /\ outcome' = Returned("manual", "uploaded", 0)
    /\ received' = BroadcastToUser(User, JobUpdate(job'))
    /\ UNCHANGED <<settings, runs, cbs, nCancel, nRetry, others, clients, ready, wire>>

\* The error the catch of the chunk loop was entered with: a request that
\* threw (0), a storage call that threw (below 0), a rejected PATCH.
CaughtMsg(http) ==
    IF http = 0 THEN NetworkErrMsg
    ELSE IF http < 0 THEN StorageErrMsg
    ELSE PatchFailedMsg(http)
CaughtHow(http) ==
    IF http = 0 THEN "patchThrew" ELSE IF http < 0 THEN "writeThrew" ELSE "patchRejected"

\* The catch of the chunk loop: the row is set to failed.
MuWriteFailed(m) ==
    /\ manuals[m].pc = "muWriteFailed"
    /\ job' = UpdateDownloadJob(job, [status |-> "failed", progress |-> 0,
                    errorMessage |-> UploadFailedMsg(CaughtMsg(manuals[m].http))])
    /\ manuals' = [manuals EXCEPT ![m] = Closed(manuals[m].closes)]
    /\ outcome' = Returned("manual", CaughtHow(manuals[m].http), manuals[m].http)
    /\ received' = BroadcastToUser(User, JobUpdate(job'))
    /\ UNCHANGED <<file, settings, runs, cbs, nCancel, nRetry, others, clients, ready, wire>>

\* ------------------------------------------------------- cancel and retry
\* A cancel that also resets the progress, as the failure writes do.
CancelResetsProgress ==
    /\ nCancel < MaxCancel
    /\ Exists
    /\ job' = UpdateDownloadJob(job, [status |-> "failed", progress |-> 0,
                                      errorMessage |-> CancelMsg])
    /\ nCancel' = nCancel + 1
    /\ outcome' = NoOutcome
    /\ received' = BroadcastToUser(User, JobUpdate(job'))
    /\ UNCHANGED <<file, settings, runs, cbs, manuals, nRetry, others, clients, ready, wire>>

\* POST /api/jobs/:id/cancel by the owner of an existing job.
Cancel ==
    /\ nCancel < MaxCancel
    /\ Exists
    /\ job' = UpdateDownloadJob(job, [status |-> "failed", errorMessage |-> CancelMsg])
    /\ nCancel' = nCancel + 1
    /\ outcome' = NoOutcome
    /\ received' = BroadcastToUser(User, JobUpdate(job'))
    /\ UNCHANGED <<file, settings, runs, cbs, manuals, nRetry, others, clients, ready, wire>>

\* cleanupDownloadFile: the artifact of the job is removed.
CleanupDownloadFile == FALSE

\* A retry that also resets the quality of the row.
RetryResetsQuality ==
    /\ nRetry < MaxRetry
    /\ Exists
    /\ Active < MaxActive
    /\ file' = CleanupDownloadFile
    /\ job' = UpdateDownloadJob(job, [status |-> "queued", progress |-> 0,
                    errorMessage |-> NoMsg, filePath |-> FALSE, fileSize |-> 0,
                    uploadedToNas |-> 0, quality |-> Null])
    /\ runs' = [runs EXCEPT ![NextRun] = At("cleanup")]
    /\ nRetry' = nRetry + 1
    /\ outcome' = Returned("retry", job.status, 200)
    /\ received' = BroadcastToUser(User, JobUpdate(job'))
    /\ UNCHANGED <<settings, cbs, manuals, nCancel, others, clients, ready, wire>>

\* POST /api/jobs/:id/retry by the owner of an existing job: the file is
\* removed, the row reset, and processDownload called.
Retry ==
    /\ nRetry < MaxRetry
    /\ Exists
    /\ Active < MaxActive
    /\ file' = CleanupDownloadFile
    /\ job' = UpdateDownloadJob(job, [status |-> "queued", progress |-> 0,
                    errorMessage |-> NoMsg, filePath |-> FALSE, fileSize |-> 0,
                    uploadedToNas |-> 0])
    /\ runs' = [runs EXCEPT ![NextRun] = At("cleanup")]
    /\ nRetry' = nRetry + 1
    /\ outcome' = Returned("retry", job.status, 200)
    /\ received' = BroadcastToUser(User, JobUpdate(job'))
    /\ UNCHANGED <<settings, cbs, manuals, nCancel, others, clients, ready, wire>>

Next ==
    \/ Submit
    \/ Cancel
    \/ Retry
    \/ MuRequest
    \/ \E r \in Runs :
        \/ RunCleanup(r) \/ RunSetDownloading(r) \/ FetchProgress(r)
        \/ FetchResolve(r) \/ FetchReject(r) \/ RunWriteCompleted(r)
        \/ RunGetSettings(r) \/ RunWriteFailed(r)
        \/ AuRead(r) \/ AuSetUploading(r) \/ AuCreate(r) \/ AuPatch(r)
        \/ AuProgress(r) \/ AuComplete(r)
    \/ \E m \in Manuals :
        \/ MuCreate(m) \/ MuSetUploading(m) \/ MuPatch(m) \/ MuProgress(m)
        \/ MuComplete(m) \/ MuWriteFailed(m)
    \/ \E c \in Callbacks : CbRead(c) \/ CbWrite(c)

Spec == Init /\ [][Next]_vars

\* ------------------------------------------------ submission and the fetch
\* The fetch side alone (submission, reclamation, downloadVideo, retry; no
\* auto-upload), with any request body and with other jobs whose artifacts
\* are on disk, uploaded or not.
FetchInit ==
    /\ job = NoJob
    /\ file = FALSE
    /\ settings \in [endpoint : BOOLEAN, autoUpload : {FALSE}]
    /\ runs = [r \in Runs |-> IdleTask]
    /\ cbs = {}
    /\ manuals = [m \in Manuals |-> IdleTask]
    /\ outcome = NoOutcome
    /\ nCancel = 0
    /\ nRetry = 0
    /\ \E up \in [OtherIds -> {0, 1}] :
        others = [o \in OtherIds |->
                    [userId |-> OtherOwner(o), uploadedToNas |-> up[o], file |-> TRUE]]
    /\ clients = NoClients
    /\ ready = [ch \in Channels |-> "NONE"]
    /\ received = [ch \in Channels |-> NoEvent]
    /\ wire = NoTaps

\* The row of another job after its retry, as far as the model has it.
OtherRow(o, other) ==
    [id |-> o, userId |-> other.userId, status |-> "queued", progress |-> 0,
     uploadedToNas |-> other.uploadedToNas]

\* POST /api/jobs/:id/retry for another job, by its owner.
OtherRetry(o) ==
    /\ others[o].uploadedToNas = 1 \/ others[o].file
    /\ others' = [others EXCEPT ![o].uploadedToNas = 0, ![o].file = CleanupDownloadFile]
    /\ outcome' = NoOutcome
    /\ received' = BroadcastToUser(others[o].userId, JobUpdate(OtherRow(o, others'[o])))
    /\ UNCHANGED <<job, file, settings, runs, cbs, manuals, nCancel, nRetry, clients, ready, wire>>

\* The downloadVideo of another job resolves: its artifact is on disk.
OtherFetched(o) ==
    /\ others[o].uploadedToNas = 0
    /\ ~others[o].file
    /\ others' = [others EXCEPT ![o].file = TRUE]
    /\ outcome' = NoOutcome
    /\ UNCHANGED <<job, file, settings, runs, cbs, manuals, nCancel, nRetry, clients, ready, received, wire>>

FetchNext ==
    \/ SubmitAny
    \/ Retry
    \/ \E r \in Runs :
        \/ RunCleanup(r) \/ RunSetDownloading(r)
        \/ FetchResolve(r) \/ FetchReject(r) \/ RunWriteCompleted(r)
        \/ RunGetSettings(r) \/ RunWriteFailed(r)
    \/ \E o \in OtherIds : OtherRetry(o) \/ OtherFetched(o)

FetchSpec == FetchInit /\ [][FetchNext]_vars

\* ------------------------------------------------------------- the registry
\* A delete that leaves the artifact on disk.
DeleteKeepsFile ==
    /\ Exists
    /\ job' = NoJob
    /\ outcome' = Returned("delete", job.status, 200)
    /\ received' = BroadcastToUser(User, JobDeleted(job.id))
    /\ UNCHANGED <<file, settings, runs, cbs, manuals, nCancel, nRetry, others, clients, ready,
                   wire>>

\* DELETE /api/jobs/:id by the owner of an existing job: the artifact is
\* removed, then the row, and job_deleted is broadcast.
Delete ==
    /\ Exists
    /\ file' = CleanupDownloadFile
    /\ job' = NoJob
    /\ outcome' = Returned("delete", job.status, 200)
    /\ received' = BroadcastToUser(User, JobDeleted(job.id))
    /\ UNCHANGED <<settings, runs, cbs, manuals, nCancel, nRetry, others, clients, ready, wire>>

\* The channels and the handlers that publish, without the progress
\* callbacks and the uploads: connections of every identity come and go
\* while the job of the user and the job of another user are worked on.
ChannelInit ==
    /\ job = NoJob
    /\ file = FALSE
    /\ settings = [endpoint |-> FALSE, autoUpload |-> FALSE]
    /\ runs = [r \in Runs |-> IdleTask]
    /\ cbs = {}
    /\ manuals = [m \in Manuals |-> IdleTask]
    /\ outcome = NoOutcome
    /\ nCancel = 0
    /\ nRetry = 0
    /\ others = [NoOthers EXCEPT !["job3"].file = TRUE]
    /\ clients = NoClients
    /\ ready = [ch \in Channels |-> "NONE"]
    /\ received = [ch \in Channels |-> NoEvent]
    /\ wire = NoTaps

ChannelNext ==
    \/ \E ch \in Channels, id \in ConnectIds : Connect(ch, id)
    \/ \E ch \in Channels : GoStale(ch) \/ CloseHandler(ch)
    \/ Submit
    \/ Cancel
    \/ Delete
    \/ \E r \in Runs :
        \/ RunCleanup(r) \/ RunSetDownloading(r)
        \/ FetchResolve(r) \/ FetchReject(r) \/ RunWriteCompleted(r)
        \/ RunGetSettings(r) \/ RunWriteFailed(r)
    \/ \E o \in OtherIds : OtherRetry(o)

ChannelSpec == ChannelInit /\ [][ChannelNext]_vars

\* ------------------------------------------------------------ the progress
\* The fetch with its progress callbacks, cancel and delete, while one
\* connection of the user is open.
ProgressInit ==
    /\ job = NoJob
    /\ file = FALSE
    /\ settings = [endpoint |-> FALSE, autoUpload |-> FALSE]
    /\ runs = [r \in Runs |-> IdleTask]
    /\ cbs = {}
    /\ manuals = [m \in Manuals |-> IdleTask]
    /\ outcome = NoOutcome
    /\ nCancel = 0
    /\ nRetry = 0
    /\ others = NoOthers
    /\ clients = [u \in {User} |-> {"ws1"}]
    /\ ready = [ch \in Channels |-> IF ch = "ws1" THEN "OPEN" ELSE "NONE"]
    /\ received = [ch \in Channels |-> NoEvent]
    /\ wire = NoTaps

ProgressNext ==
    \/ Submit
    \/ Cancel
    \/ Delete
    \/ \E r \in Runs :
        \/ RunCleanup(r) \/ RunSetDownloading(r) \/ FetchProgress(r)
        \/ FetchResolve(r) \/ FetchReject(r) \/ RunWriteCompleted(r)
        \/ RunGetSettings(r) \/ RunWriteFailed(r)
    \/ \E c \in Callbacks : CbRead(c) \/ CbWrite(c)

ProgressSpec == ProgressInit /\ [][ProgressNext]_vars

\* -------------------------------------------------------------- the uploads
\* The end of processDownload and the uploads of a job whose downloadVideo
\* has just resolved: the completion write, the auto-upload of the run and
\* the manual upload, while one connection of the user is open and a
\* listener is on the wire.
UploadInit ==
    /\ job = UpdateDownloadJob(NewJob(GoodRequest), [status |-> "downloading"])
    /\ file = TRUE
    /\ settings \in [endpoint : BOOLEAN, autoUpload : BOOLEAN]
    /\ runs = [r \in Runs |-> IF r = 1 THEN At("writeCompleted") ELSE IdleTask]
    /\ cbs = {}
    /\ manuals = [m \in Manuals |-> IdleTask]
    /\ outcome = NoOutcome
    /\ nCancel = 0
    /\ nRetry = 0
    /\ others = NoOthers
    /\ clients = [u \in {User} |-> {"ws1"}]
    /\ ready = [ch \in Channels |-> IF ch = "ws1" THEN "OPEN" ELSE "NONE"]
    /\ received = [ch \in Channels |-> NoEvent]
    /\ wire = [t \in {"tap"} |-> NoExchange]

UploadNext ==
    \/ MuRequest
    \/ \E r \in Runs :
        \/ RunWriteCompleted(r) \/ RunGetSettings(r)
        \/ AuRead(r) \/ AuSetUploading(r) \/ AuCreate(r) \/ AuPatch(r)
        \/ AuProgress(r) \/ AuComplete(r)
    \/ \E m \in Manuals :
        \/ MuCreate(m) \/ MuSetUploading(m) \/ MuPatch(m) \/ MuProgress(m)
        \/ MuComplete(m) \/ MuWriteFailed(m)

UploadSpec == UploadInit /\ [][UploadNext]_vars

\* The uploads when every continuation that can run does run: a call of
\* processDownload and an accepted upload request go on whenever the
\* request or storage call they wait for has returned.
UploadFairness ==
    /\ \A r \in Runs :
        WF_vars(RunWriteCompleted(r) \/ RunGetSettings(r) \/ AuRead(r)
                \/ AuSetUploading(r) \/ AuCreate(r) \/ AuPatch(r)
                \/ AuProgress(r) \/ AuComplete(r))
    /\ \A m \in Manuals :
        WF_vars(MuCreate(m) \/ MuSetUploading(m) \/ MuPatch(m) \/ MuProgress(m)
                \/ MuComplete(m) \/ MuWriteFailed(m))

UploadLiveSpec == UploadSpec /\ UploadFairness

\* --------------------------------------------------- requests of strangers
\* The handlers of /api/jobs/:id as called by any authenticated user.
\* A handler that looks for the row and not at its owner.
NotFoundIfMissing(caller) == ~Exists

\* !job || job.userId !== userId
NotFound(caller) == ~Exists \/ job.userId # caller

\* res.status(404).json({ message: "Job not found" }); return
Refuse(op) ==
    /\ outcome' = Returned(op, "notFound", 404)
    /\ UNCHANGED <<job, file, settings, runs, cbs, manuals, nCancel, nRetry, others,
                   clients, ready, received, wire>>

CancelBy(caller) == IF NotFound(caller) THEN Refuse("cancel") ELSE Cancel
RetryBy(caller) == IF NotFound(caller) THEN Refuse("retry") ELSE Retry
DeleteBy(caller) == IF NotFound(caller) THEN Refuse("delete") ELSE Delete
UploadBy(caller) == IF NotFound(caller) THEN Refuse("manual") ELSE MuRequest

\* GET /api/jobs/:id/download: the file of a completed job is streamed.
DownloadBy(caller) ==
    IF NotFound(caller) THEN Refuse("download")
    ELSE /\ outcome' = IF job.status # "completed"
                       THEN Returned("download", "notCompleted", 400)
                       ELSE IF ~file THEN Returned("download", "fileMissing", 404)
                       ELSE Returned("download", "streamed", 200)
         /\ UNCHANGED <<job, file, settings, runs, cbs, manuals, nCancel, nRetry, others,
                        clients, ready, received, wire>>

\* The users who do not own the job.
Strangers == Identities \ {User}

\* A job that is new, or has been deleted by its owner during the fetch;
\* an endpoint is set and the owner and a stranger are connected.
StrangerInit ==
    /\ job = NoJob
    /\ file = FALSE
    /\ settings = [endpoint |-> TRUE, autoUpload |-> FALSE]
    /\ runs \in {[r \in Runs |-> IdleTask],
                 [r \in Runs |-> IF r = 1 THEN At("fetching") ELSE IdleTask]}
    /\ cbs = {}
    /\ manuals = [m \in Manuals |-> IdleTask]
    /\ outcome = NoOutcome
    /\ nCancel = 0
    /\ nRetry = 0
    /\ others = NoOthers
    /\ clients = [u \in Identities |-> IF u = User THEN {"ws1"} ELSE {"ws2"}]
    /\ ready = [ch \in Channels |-> "OPEN"]
    /\ received = [ch \in Channels |-> NoEvent]
    /\ wire = NoTaps

\* The owner submits and the pipeline runs; every other request comes from
\* a stranger.
StrangerNext ==
    \/ Submit
    \/ \E r \in Runs :
        \/ RunCleanup(r) \/ RunSetDownloading(r) \/ FetchProgress(r)
        \/ FetchResolve(r) \/ FetchReject(r) \/ RunWriteCompleted(r)
        \/ RunGetSettings(r) \/ RunWriteFailed(r)
    \/ \E c \in Callbacks : CbRead(c) \/ CbWrite(c)
    \/ \E caller \in Strangers :
        \/ CancelBy(caller) \/ RetryBy(caller) \/ DeleteBy(caller)
        \/ DownloadBy(caller) \/ UploadBy(caller)

StrangerSpec == StrangerInit /\ [][StrangerNext]_vars

\* ------------------------------------------------------ storage failures
\* A storage call of an upload throws (the database is locked, the disk is
\* full).  StorageErr is the number the model gives the error.
StorageErr == -1

\* In the chunk loop of autoUploadToNas: the finally closes the file and the
\* error goes to the catch of processDownload, which logs it.
AuProgressThrows(r) ==
    /\ runs[r].pc = "auProgress"
    /\ runs' = [runs EXCEPT ![r] = Closed(runs[r].closes + 1)]
    /\ outcome' = Returned("run", "writeThrew", StorageErr)
    /\ UNCHANGED <<job, file, settings, cbs, manuals, nCancel, nRetry, others,
                   clients, ready, received, wire>>

\* After the finally of autoUploadToNas: the error goes to the catch of
\* processDownload.
AuCompleteThrows(r) ==
    /\ runs[r].pc = "auComplete"
    /\ runs' = [runs EXCEPT ![r] = Closed(runs[r].closes)]
    /\ outcome' = Returned("run", "writeThrew", StorageErr)
    /\ UNCHANGED <<job, file, settings, cbs, manuals, nCancel, nRetry, others,
                   clients, ready, received, wire>>

\* In the chunk loop of the manual upload: the catch closes the file.
MuProgressThrows(m) ==
    /\ manuals[m].pc = "muProgress"
    /\ manuals' = [manuals EXCEPT ![m] = MuCaught(m, StorageErr)]
    /\ outcome' = NoOutcome
    /\ UNCHANGED <<job, file, settings, runs, cbs, nCancel, nRetry, others,
                   clients, ready, received, wire>>

\* After the closeSync of line 611: the catch calls closeSync on the
\* descriptor again.  Either that throws EBADF out of the catch, and the
\* outer catch throws from res.status(500) because the request has been
\* answered; or the number has been given to another file of the process
\* since, that file is closed, and the catch goes on to its write.
MuCompleteThrows(m) ==
    /\ manuals[m].pc = "muComplete"
    /\ \/ /\ manuals' = [manuals EXCEPT ![m] = Closed(manuals[m].closes + 1)]
          /\ outcome' = Returned("manual", "closeThrew", StorageErr)
       \/ /\ manuals' = [manuals EXCEPT ![m] = MuCaught(m, StorageErr)]
          /\ outcome' = NoOutcome
    /\ UNCHANGED <<job, file, settings, runs, cbs, nCancel, nRetry, others,
                   clients, ready, received, wire>>

\* The write of the catch throws too: the outer catch throws from
\* res.status(500).
MuWriteFailedThrows(m) ==
    /\ manuals[m].pc = "muWriteFailed"
    /\ manuals' = [manuals EXCEPT ![m] = Closed(manuals[m].closes)]
    /\ outcome' = Returned("manual", "writeThrew", StorageErr)
    /\ UNCHANGED <<job, file, settings, runs, cbs, nCancel, nRetry, others,
                   clients, ready, received, wire>>

\* The uploads with storage calls that may throw.
FaultNext ==
    \/ UploadNext
    \/ \E r \in Runs : AuProgressThrows(r) \/ AuCompleteThrows(r)
    \/ \E m \in Manuals :
        MuProgressThrows(m) \/ MuCompleteThrows(m) \/ MuWriteFailedThrows(m)

FaultSpec == UploadInit /\ [][FaultNext]_vars

\* ---------------------------------------------------------------- the store
\* The values of the status column, and the status+progress updates.
Statuses == {"queued", "downloading", "converting", "uploading", "completed", "failed"}
StatusProgress == [status : Statuses, progress : {0, 25, 40, 90, 100}]

\* Rows the handlers leave behind: new, cancelled before and after the
\* fetch, failed in the fetch, completed, uploaded.
StoredRows ==
    LET new == NewJob(GoodRequest)
        done == [status |-> "completed", progress |-> 100,
                 filePath |-> TRUE, fileSize |-> FileSize]
    IN {new,
        UpdateDownloadJob(new, [status |-> "failed", errorMessage |-> CancelMsg]),
        UpdateDownloadJob(UpdateDownloadJob(new, done),
                          [status |-> "failed", errorMessage |-> CancelMsg]),
        UpdateDownloadJob(new, [status |-> "failed", errorMessage |-> FetchErrMsg]),
        UpdateDownloadJob(new, done),
        UpdateDownloadJob(UpdateDownloadJob(new, done), [uploadedToNas |-> 1])}

\* The table alone: a row or none, and updates of status and progress.
StoreInit ==
    /\ job \in StoredRows \cup {NoJob}
    /\ file = FALSE
    /\ settings = [endpoint |-> FALSE, autoUpload |-> FALSE]
    /\ runs = [r \in Runs |-> IdleTask]
    /\ cbs = {}
    /\ manuals = [m \in Manuals |-> IdleTask]
    /\ outcome = NoOutcome
    /\ nCancel = 0
    /\ nRetry = 0
    /\ others = NoOthers
    /\ clients = NoClients
    /\ ready = [ch \in Channels |-> "NONE"]
    /\ received = [ch \in Channels |-> NoEvent]
    /\ wire = NoTaps

\* storage.updateDownloadJob(id, {status, progress}).
StoreUpdate(updates) ==
    /\ job' = UpdateDownloadJob(job, updates)
    /\ UNCHANGED <<file, settings, runs, cbs, manuals, outcome, nCancel, nRetry, others,
                   clients, ready, received, wire>>

StoreNext == \E updates \in StatusProgress : StoreUpdate(updates)

StoreSpec == StoreInit /\ [][StoreNext]_vars

\* ---------------------------------------------------------- the steps
\* The row says the job was cancelled: status failed with cancel's message.
Cancelled == Exists /\ job.status = "failed" /\ job.errorMessage = CancelMsg

\* The step is one of a processDownload call (autoUploadToNas included).
RunStep == nRetry' = nRetry /\ Exists /\ \E r \in Runs : runs'[r] # runs[r]

\* The step is the write of a progress callback.
CbWriteStep == \E c \in cbs : c.pc = "write" /\ cbs' = cbs \ {c}

\* The step is a progress update: of a callback, or of a chunk loop.
ProgressUpdateStep ==
    \/ CbWriteStep
    \/ \E r \in Runs : runs[r].pc = "auProgress" /\ runs'[r].pc # "auProgress"
    \/ \E m \in Manuals : manuals[m].pc = "muProgress" /\ manuals'[m].pc # "muProgress"

Phases == {"downloading", "converting", "uploading"}

\* The message m contains the HTTP status st.
MentionsStatus(m, st) == \E i \in 1..Len(m) : m[i] = ToString(st)

\* The position of a status on queued, downloading, converting, uploading,
\* completed.
Rank(st) ==
    CASE st = "queued" -> 0 [] st = "downloading" -> 1 [] st = "converting" -> 2
      [] st = "uploading" -> 3 [] st = "completed" -> 4 [] OTHER -> -1

\* downloadVideo of a run is in flight.
Fetching(r) == runs[r].pc = "fetching"

\* An upload session (create, then the chunk loop) is in flight.
AutoUploading(r) == runs[r].pc \in {"auCreate", "auPatch", "auProgress"}
ManualUploading(m) == manuals[m].pc \in {"muCreate", "muSetUploading", "muPatch", "muProgress"}
UploadsInFlight ==
    Cardinality({r \in Runs : AutoUploading(r)})
    + Cardinality({m \in Manuals : ManualUploading(m)})

\* ---------------------------------------------------------- the claims
\* C1: once cancel has set the status to failed, no later step of a
\* processDownload call still running for the job (its first write, the
\* fetch's completion write, the start of auto-upload, the upload's progress
\* and completion writes) moves the status away from failed.
C1_CancelWins ==
    [][Cancelled /\ RunStep => job'.status = "failed"]_vars

\* C2: a progress callback whose write lands after a cancel, whatever the
\* order of the cancel and the callback's re-read, leaves the status failed.
C2_CallbackAfterCancel ==
    [][Cancelled /\ CbWriteStep => job'.status = "failed"]_vars

\* C3: within one phase (the status stays downloading, converting or
\* uploading) a progress update never lowers the persisted progress.
C3_ProgressMonotonic ==
    [][(ProgressUpdateStep /\ job.status \in Phases /\ job'.status = job.status)
        => job'.progress >= job.progress]_vars

\* C4: a retry request for a job whose status is not failed is rejected: the
\* row and the artifact are unchanged and no processDownload call is started.
C4_RetryOnlyWhenFailed ==
    [][(nRetry' # nRetry /\ job.status # "failed")
        => (job' = job /\ file' = file /\ runs' = runs)]_vars

\* C5: every change of the status goes forward along queued, downloading,
\* converting, uploading, completed, or from one of the first four to failed,
\* or from failed to queued by retry; completed never changes.
C5_StatusForward ==
    [][(Exists /\ job'.status # job.status)
        => \/ Rank(job.status) >= 0 /\ Rank(job.status) < Rank(job'.status)
           \/ Rank(job.status) \in 0..3 /\ job'.status = "failed"
           \/ job.status = "failed" /\ job'.status = "queued" /\ nRetry' # nRetry]_vars

\* C6: at most one downloadVideo is in flight for the job.
C6_OneFetch == Cardinality({r \in Runs : Fetching(r)}) <= 1

\* C7: at most one upload session is in flight for the job, auto or manual.
C7_OneUpload == UploadsInFlight <= 1

\* C8: no downloadVideo is in flight for the job while an upload session is.
C8_FetchUploadSequential == ~((\E r \in Runs : Fetching(r)) /\ UploadsInFlight > 0)

\* C9: when the create request of the auto-upload is answered with a status
\* other than 201 or without Location, the upload ends there (no PATCH is
\* sent) with the job failed, its errorMessage containing the HTTP status,
\* and the artifact untouched.
C9_CreateFailureFailsJob ==
    [][(outcome'.task = "run" /\ outcome'.how \in {"createFailed", "noLocation"})
        => /\ job'.status = "failed"
           /\ MentionsStatus(job'.errorMessage, outcome'.http)
           /\ file' = file]_vars

\* C10: when a PATCH is answered with a status other than 204 or 200, the
\* upload ends with the job failed, uploadedToNas 0 and the artifact
\* untouched.
C10_PatchRejectedFailsJob ==
    [][outcome'.how = "patchRejected"
        => /\ job'.status = "failed"
           /\ job'.uploadedToNas = 0
           /\ file' = file]_vars

\* A write of the chunk loop of an upload, or its completion write.
UploadWriteStep ==
    \/ \E r \in Runs : runs[r].pc \in {"auProgress", "auComplete"} /\ runs'[r] # runs[r]
    \/ \E m \in Manuals :
        manuals[m].pc \in {"muProgress", "muComplete"} /\ manuals'[m] # manuals[m]

C12_FinalOffset ==
    /\ \A r \in Runs : runs[r].pc = "auComplete" => runs[r].offset = runs[r].size
    /\ \A m \in Manuals : manuals[m].pc = "muComplete" => manuals[m].offset = manuals[m].size

\* C13: while the job is uploading, the persisted percentage is at most 99.
C13_UploadBelowHundred ==
    (Exists /\ job.status = "uploading") => job.progress <= 99

\* C14: progress 100 is written when the pipeline is through: a run does not
\* take a job whose progress is 100 into the upload.
C14_HundredOnlyAtEnd ==
    [][(RunStep /\ job.progress = 100) => job'.status # "uploading"]_vars

C19_UploadStopsAfterCancel ==
    [][(Cancelled /\ UploadWriteStep) => job'.status = "failed"]_vars

\* C20: retry of a failed job leaves the row queued with progress 0 and no
\* error, file path, file size or upload flag, starts a processDownload call,
\* and keeps the id, the owner, the url, the format and the quality.
C20_RetryResetsJob ==
    [][(nRetry' # nRetry /\ job.status = "failed")
        => /\ job'.status = "queued" /\ job'.progress = 0
           /\ job'.errorMessage = NoMsg
           /\ job'.filePath = FALSE /\ job'.fileSize = 0 /\ job'.uploadedToNas = 0
           /\ runs[NextRun].pc = "idle" /\ runs'[NextRun] = At("cleanup")
           /\ job'.id = job.id /\ job'.userId = job.userId
           /\ job'.youtubeUrl = job.youtubeUrl
           /\ job'.format = job.format /\ job'.quality = job.quality]_vars

C20_Witness ==
    /\ outcome = Returned("retry", "failed", 200)
    /\ Exists /\ job.status = "queued" /\ job.quality = "720p"
    /\ runs[1].pc = "done" /\ runs[2].pc = "cleanup"

\* The domains downloads are taken from.
SupportedHosts == {<<"youtube.com">>, <<"www.", "youtube.com">>, <<"youtu.be">>}

\* The host of a url: the pieces between "https://" and the path.
Host(url) ==
    IF ~IsUrl(url) THEN <<>>
    ELSE IF Len(url) >= 3 /\ url[2] = "www." THEN <<url[2], url[3]>>
    ELSE IF Len(url) >= 2 THEN <<url[2]>>
    ELSE <<>>

\* A step of processDownload's autoCleanupIfNeeded.
CleanupStep == \E r \in Runs : runs[r].pc = "cleanup" /\ runs'[r].pc = "setDownloading"

C17_UnsupportedRejected ==
    [][(outcome'.task = "submit" /\ outcome'.how = "created")
        => /\ Host(job'.youtubeUrl) \in SupportedHosts
           /\ job'.format \in {"audio", "video"}]_vars

\* C18: a submission whose probe fails is answered with an error and creates
\* no row; a row is created only by a submission that validated and was
\* probed.
C18_ProbeBeforeCreate ==
    [][/\ (outcome'.task = "submit" /\ outcome'.how # "created")
            => (outcome'.http = 400 /\ ~Exists' /\ runs' = runs)
       /\ (~Exists /\ Exists')
            => (outcome' = Returned("submit", "created", 200)
                /\ Validates([url |-> job'.youtubeUrl, format |-> job'.format,
                              quality |-> job'.quality]))]_vars

C18_Witness ==
    /\ outcome = Returned("submit", "probeFailed", 400)
    /\ ~Exists /\ runs[1].pc = "idle"
\* The job was deleted: its row is gone after a processDownload call was
\* started for it.
Deleted == ~Exists /\ runs[1].pc # "idle"

\* The message of a job_update whose row is undefined.
UpdateOfNoRow == [type |-> "job_update"]

\* C21: once the job is deleted its row stays absent: a progress callback
\* that reads returns, and the write of a progress callback, the completion
\* write and the failure write of a processDownload call still running
\* change no row and go on to their broadcast and their next position.
C21_DeletedStaysAbsent ==
    [][Deleted
        => /\ ~Exists'
           /\ \A c \in cbs : (c.pc = "read" /\ c \notin cbs') => cbs' = cbs \ {c}
           /\ CbWriteStep => received'["ws1"] = UpdateOfNoRow
           /\ \A r \in Runs :
                /\ (runs[r].pc = "writeCompleted" /\ runs'[r] # runs[r])
                    => (runs'[r].pc = "getSettings" /\ received'["ws1"] = UpdateOfNoRow)
                /\ (runs[r].pc = "writeFailed" /\ runs'[r] # runs[r])
                    => (runs'[r] = DoneTask /\ received'["ws1"] = UpdateOfNoRow)]_vars

\* The failure write of a run has found the row deleted.
C21_Witness ==
    /\ Deleted
    /\ outcome.how = "fetchFailed"
    /\ runs[1] = DoneTask
    /\ received["ws1"] = UpdateOfNoRow

\* The user a step publishes to: the owner of the other job it retries, or
\* the user of the job.
PublishedTo ==
    IF \E o \in OtherIds : others'[o] # others[o]
    THEN others[CHOOSE o \in OtherIds : others'[o] # others[o]].userId
    ELSE User

\* The open channels registered for userId.
OpenChannels(userId) == {ch \in ClientsOf(userId) : ready[ch] = "OPEN"}

\* C22: a publish to a user is sent to every open channel registered for
\* that user (the updated row, or job_deleted with the id), and a channel
\* is sent something only when it is open and registered for the user the
\* step publishes to: never a channel of another identity or of none.
C22_PublishToOwnChannels ==
    [][/\ \A ch \in Channels :
            received'[ch] # received[ch] => ch \in OpenChannels(PublishedTo)
       /\ (Exists /\ Exists' /\ job' # job)
            => \A ch \in OpenChannels(User) :
                    received'[ch] = [type |-> "job_update", job |-> job']
       /\ (Exists /\ ~Exists')
            => \A ch \in OpenChannels(User) :
                    received'[ch] = [type |-> "job_deleted", jobId |-> job.id]
       /\ \A o \in OtherIds :
            others'[o] # others[o]
                => \A ch \in OpenChannels(others[o].userId) :
                        received'[ch].type = "job_update" /\ received'[ch].job.id = o]_vars

\* A channel of the user has the update of the user's job, and a channel of
\* the other user has the update of that user's job.
C22_Witness ==
    \E a, b \in Channels :
        /\ a \in OpenChannels(User) /\ b \in OpenChannels("user2")
        /\ Exists /\ received[a] = [type |-> "job_update", job |-> job]
        /\ received[b].type = "job_update" /\ received[b].job.id = "job3"

\* The message is a job_update that carries a row.
CarriesRow(msg) == msg.type = "job_update" /\ "job" \in DOMAIN msg

\* C23: the percentages a channel is sent for the job within one phase never
\* go down, also while two progress callbacks are in progress.
C23_BroadcastInOrder ==
    [][\A ch \in Channels :
        (/\ CarriesRow(received[ch]) /\ CarriesRow(received'[ch])
         /\ received[ch].job.status \in Phases
         /\ received'[ch].job.status = received[ch].job.status)
            => received'[ch].job.progress >= received[ch].job.progress]_vars

\* C24: the persisted progress of the job is an integer from 0 to 100.
C24_ProgressInRange == Exists => job.progress \in 0..100

\* C25: cancel of an existing job by its owner sets the status to failed and
\* the errorMessage to "Cancelled by user", and leaves the progress, the
\* file path, the file size, the upload flag, the id, the owner, the url,
\* the format and the quality of the row as they were.
C25_CancelFrame ==
    [][nCancel' # nCancel
        => /\ job'.status = "failed"
           /\ job'.errorMessage = <<"Cancelled by user">>
           /\ \A f \in {"progress", "filePath", "fileSize", "uploadedToNas",
                         "id", "userId", "youtubeUrl", "format", "quality"} :
                job'[f] = job[f]]_vars

\* The job was cancelled while downloading at 40%.
C25_Witness ==
    /\ nCancel = 1
    /\ Cancelled /\ job.progress = 40 /\ job.id = "job"
    /\ \E r \in Runs : runs[r].pc = "fetching"

\* The smaller of two numbers.
Min(a, b) == IF a < b THEN a ELSE b

\* What the listener on the wire has seen of the PATCH of a loop that was
\* at offset in a file of size: the header and the body of the request, and
\* the offset newOffset the loop is at after a response that was accepted.
PatchAsClaimed(x, offset, size, newOffset) ==
    /\ x.req.uploadOffset = offset
    /\ x.req.position = offset
    /\ x.req.length = Min(CHUNK_SIZE, size - offset)
    /\ x.status \in {204, 200}
        => newOffset = (IF x.hdr # NoHdr THEN x.hdr ELSE offset + x.req.length)

\* C26: every PATCH of a chunk loop carries the loop's offset as its
\* Upload-Offset and min(CHUNK_SIZE, size - offset) bytes read from that
\* offset; after an accepted PATCH the offset is the Upload-Offset of the
\* response when it has one, and the old offset plus the chunk otherwise.
C26_PatchCarriesOffset ==
    [][/\ \A r \in Runs :
            (runs[r].pc = "auPatch" /\ runs'[r] # runs[r])
                => PatchAsClaimed(wire'["tap"], runs[r].offset, runs[r].size, runs'[r].offset)
       /\ \A m \in Manuals :
            (manuals[m].pc = "muPatch" /\ manuals'[m] # manuals[m])
                => PatchAsClaimed(wire'["tap"], manuals[m].offset, manuals[m].size,
                                  manuals'[m].offset)]_vars

\* The last chunk, shorter than CHUNK_SIZE, was sent from offset 3 and
\* accepted without an Upload-Offset: the run is at the end of the file.
C26_Witness ==
    /\ wire["tap"] = [req |-> [uploadOffset |-> 3, position |-> 3, length |-> 1],
                      status |-> 204, hdr |-> NoHdr]
    /\ \E r \in Runs : runs[r].pc = "auProgress" /\ runs[r].offset = 4

\* A progress write of a chunk loop.
AutoProgressStep(r) == runs[r].pc = "auProgress" /\ runs'[r] # runs[r]
ManualProgressStep(m) == manuals[m].pc = "muProgress" /\ manuals'[m] # manuals[m]

\* The integer below x.
Floor(n, d) == n \div d

\* C27 as stated: after every chunk the percentage written and broadcast is
\* the integer below offset/total * 99, in the auto-upload and in the manual
\* upload.
C27_FloorOfNinetyNine ==
    [][/\ \A r \in Runs :
            (AutoProgressStep(r) /\ Exists /\ runs[r].offset \in 0..runs[r].size)
                => job'.progress = Floor(runs[r].offset * 99, runs[r].size)
       /\ \A m \in Manuals :
            (ManualProgressStep(m) /\ Exists /\ manuals[m].offset \in 0..manuals[m].size)
                => job'.progress = Floor(manuals[m].offset * 99, manuals[m].size)]_vars

\* C27 as amended: after every chunk the percentage written to the row, and
\* broadcast with it, is offset/total * 99 rounded to the nearest integer
\* (a half upwards) in the manual upload, and 90 plus offset/total * 9
\* rounded so in the auto-upload.
C27_RoundedPercentage ==
    [][/\ \A r \in Runs :
            (AutoProgressStep(r) /\ Exists)
                => /\ job'.progress = 90 + Floor(2 * 9 * runs[r].offset + runs[r].size,
                                                 2 * runs[r].size)
                   /\ job'.status = "uploading"
                   /\ received'["ws1"].job.progress = job'.progress
       /\ \A m \in Manuals :
            (ManualProgressStep(m) /\ Exists)
                => /\ job'.progress = Floor(2 * 99 * manuals[m].offset + manuals[m].size,
                                            2 * manuals[m].size)
                   /\ job'.status = "uploading"
                   /\ received'["ws1"].job.progress = job'.progress]_vars

\* The auto-upload has written and broadcast 97 for 3 of 4 units (90 plus
\* 6.75 rounded).
C27_Witness ==
    /\ Exists /\ job.status = "uploading" /\ job.progress = 97
    /\ \E r \in Runs : runs[r].pc = "auPatch" /\ runs[r].offset = 3
    /\ CarriesRow(received["ws1"]) /\ received["ws1"].job.progress = 97

\* The seconds that remain, for a chunk that took tenths of a second: the
\* remaining units over the units a second, to the nearest integer.
RemainingSeconds(remaining, chunk, tenths) ==
    Floor(2 * remaining * (IF tenths > 1 THEN tenths ELSE 1) + 10 * chunk, 20 * chunk)

\* s seconds as M:SS.
MinSec(s) == NatStr(s \div 60) \o <<":", ToString((s % 60) \div 10), ToString((s % 60) % 10)>>

\* The M:SS labels of the seconds that may remain.
EtaLabels(remaining, chunk) ==
    {MinSec(RemainingSeconds(remaining, chunk, t)) : t \in Durations}

\* C28: the ETA label sent with the progress of a chunk is the remaining
\* seconds s (not negative) as M:SS: the minutes s \div 60, a colon, and the
\* seconds s % 60 in two digits, 00 to 59.
C28_EtaIsMinSec ==
    [][/\ \A r \in Runs :
            (AutoProgressStep(r) /\ runs[r].offset <= runs[r].size)
                => received'["ws1"].eta
                        \in EtaLabels(runs[r].size - runs[r].offset, runs[r].chunk)
       /\ \A m \in Manuals :
            (ManualProgressStep(m) /\ manuals[m].offset <= manuals[m].size)
                => received'["ws1"].eta
                        \in EtaLabels(manuals[m].size - manuals[m].offset, manuals[m].chunk)]_vars

\* C29: after the completion write of a fetch (which sets completed and
\* touches neither the upload flag nor the artifact), the run starts the
\* upload exactly when the auto-upload preference is on and an endpoint is
\* set; otherwise it returns and leaves the row and the artifact as they
\* are, so that with no other request the job ends completed, not uploaded,
\* its artifact on disk.
C29_UploadIffConfigured ==
    [][\A r \in Runs :
        /\ (runs[r].pc = "writeCompleted" /\ runs'[r] # runs[r])
            => /\ job'.status = "completed"
               /\ job'.uploadedToNas = job.uploadedToNas
               /\ file' = file
        /\ (runs[r].pc = "getSettings" /\ runs'[r] # runs[r])
            => /\ runs'[r].pc = "auRead" <=> (settings.autoUpload /\ settings.endpoint)
               /\ runs'[r].pc # "auRead"
                    => /\ runs'[r] = DoneTask
                       /\ job' = job /\ file' = file
                       /\ (\A m \in Manuals : manuals[m].pc = "idle")
                            => (job'.status = "completed" /\ job'.uploadedToNas = 0
                                /\ file')]_vars

\* An endpoint is set and the preference is off: the run has returned and
\* the job is completed, not uploaded, with its artifact.
C29_Witness ==
    /\ settings = [endpoint |-> TRUE, autoUpload |-> FALSE]
    /\ outcome = Returned("run", "noUpload", 0)
    /\ runs[1] = DoneTask
    /\ job.status = "completed" /\ job.uploadedToNas = 0 /\ file

\* The step publishes an update of the user's job or its deletion.
PublishesToUser == Exists /\ job' # job

\* C30 as stated: after a publish to the user, every channel registered for
\* the user is open.
C30_PrunedByPublish ==
    [][PublishesToUser => \A ch \in ClientsOf(User)' : ready'[ch] = "OPEN"]_vars

\* C30: a publish sends nothing to a channel that is not open and takes no
\* channel out of the registry; a channel leaves the set of its identity
\* when, and only when, its close event is handled, so that no channel
\* whose close event has been handled is registered.
C30_SkippedUntilClosed ==
    [][/\ \A ch \in Channels : ready[ch] # "OPEN" => received'[ch] = received[ch]
       /\ PublishesToUser => clients' = clients
       /\ \A u \in Identities, ch \in Channels :
            (ch \in ClientsOf(u) /\ ch \notin ClientsOf(u)')
                => (ready[ch] = "CLOSING" /\ ready'[ch] = "CLOSED")
       /\ \A u \in Identities, ch \in Channels :
            ready'[ch] = "CLOSED" => ch \notin ClientsOf(u)']_vars

\* Two channels of the user got the downloading row; one began to close,
\* was sent nothing by the cancel that the other got, and is still
\* registered.
C30_Witness ==
    \E a, b \in Channels :
        /\ a \in OpenChannels(User)
        /\ job.status = "failed" /\ received[a] = JobUpdate(job)
        /\ received[b].type = "job_update" /\ received[b].job.status = "downloading"
        /\ ready[b] = "CLOSING" /\ b \in ClientsOf(User)

\* C31: a status+progress update applied to the row an application of the
\* same update has left gives that row again, every other field as it was;
\* with no row both leave none.
C31_UpdateIdempotent ==
    [][\A updates \in StatusProgress :
        job' = UpdateDownloadJob(job, updates)
            => UpdateDownloadJob(job', updates) = job']_vars

\* A cancelled row with its artifact has been set to uploading/90 and has
\* kept its other fields.
C31_Witness ==
    /\ job = UpdateDownloadJob(NewJob(GoodRequest),
                [status |-> "uploading", progress |-> 90, errorMessage |-> CancelMsg,
                 filePath |-> TRUE, fileSize |-> FileSize])

\* The run r ends in this step.
RunEnds(r) == runs[r].pc \notin {"idle", "done"} /\ runs'[r].pc = "done"

\* C32: a run that ends while no manual upload is in progress and the row
\* exists leaves the job completed or failed, also when the create or a
\* PATCH request of its auto-upload has failed.
C32_RunEndsTerminal ==
    [][\A r \in Runs :
        (RunEnds(r) /\ Exists' /\ \A m \in Manuals : manuals[m].pc = "idle")
            => job'.status \in {"completed", "failed"}]_vars

\* The chunk loop of the run r, of the request m.
InAutoLoop(r) == runs[r].pc \in {"auPatch", "auProgress"}
InManualLoop(m) == manuals[m].pc \in {"muPatch", "muProgress"}

\* C33: when every PATCH is answered, a chunk loop that has been entered is
\* left, whatever Upload-Offset the answers carry.
C33_ChunkLoopEnds ==
    /\ \A r \in Runs : InAutoLoop(r) ~> ~InAutoLoop(r)
    /\ \A m \in Manuals : InManualLoop(m) ~> ~InManualLoop(m)

\* The positions of an upload that has opened its file.
AutoOpened == {"auPatch", "auProgress", "auComplete"}
ManualOpened == {"muPatch", "muProgress", "muComplete", "muWriteFailed"}

\* C36: an upload that has opened its file and returns, on whatever path,
\* has called closeSync on the handle once.
C36_ClosedOnce ==
    [][/\ \A r \in Runs :
            (runs[r].pc \in AutoOpened /\ runs'[r].pc = "done") => runs'[r].closes = 1
       /\ \A m \in Manuals :
            (manuals[m].pc \in ManualOpened /\ manuals'[m].pc = "done")
                => manuals'[m].closes = 1]_vars

\* The step sets the uploadedToNas flag; the step removes the artifact.
SetsFlag == Exists /\ Exists' /\ job.uploadedToNas # 1 /\ job'.uploadedToNas = 1
RemovesFile == file /\ ~file'

\* The step is the return of an upload whose chunk loop has ended with the
\* offset at or beyond the size of the file.
LoopEndedStep ==
    \/ \E r \in Runs : /\ runs[r].pc = "auComplete" /\ runs'[r].pc = "done"
                        /\ runs[r].offset >= runs[r].size
    \/ \E m \in Manuals : /\ manuals[m].pc = "muComplete" /\ manuals'[m].pc = "done"
                           /\ manuals[m].offset >= manuals[m].size

\* C34: among the steps of the uploads, the flag is set and the artifact
\* removed only by the return of an upload whose chunk loop has ended with
\* offset >= size, which takes every PATCH of it to have been accepted; an
\* upload that returns in any other way leaves the flag and the file.
C34_FlagOnlyAfterLoop ==
    [][/\ (SetsFlag \/ RemovesFile) => (LoopEndedStep /\ outcome'.how = "uploaded")
       /\ (outcome'.task \in {"run", "manual"} /\ outcome'.how # "uploaded")
            => (job'.uploadedToNas = job.uploadedToNas /\ file' = file)]_vars

\* A manual upload has returned as uploaded: the flag is set and the file
\* is gone.
C34_Witness ==
    /\ outcome = Returned("manual", "uploaded", 0)
    /\ job.uploadedToNas = 1 /\ ~file

\* The requests on a job by its id.
JobRequests == {"cancel", "retry", "delete", "download", "manual"}

\* C35: a cancel, retry, delete, download or manual upload of a user who
\* does not own the job, or for a job that is not there, is answered 404
\* and changes neither the row nor the artifact nor a running task, and no
\* channel is sent anything; none of these requests ever takes effect.
C35_StrangerNotFound ==
    [][/\ outcome'.task \in JobRequests
            => /\ outcome'.http = 404
               /\ UNCHANGED <<job, file, runs, cbs, manuals, received, others>>
       /\ nCancel' = nCancel /\ nRetry' = nRetry /\ manuals' = manuals
       /\ Exists => Exists']_vars

\* A stranger's retry of the job has been refused during the fetch.
C35_Witness ==
    /\ Exists /\ job.userId = User /\ runs[1].pc = "fetching"
    /\ outcome = Returned("retry", "notFound", 404)
    /\ \A ch \in Channels : received[ch].type # "job_deleted"

\* Every processDownload call has returned.
PipelinesOver == \A r \in Runs : runs[r].pc \in {"idle", "done"}

\* C37: once the job is deleted and every processDownload call started for
\* it has returned, no artifact of the job is on disk.
C37_NoOrphanAfterDelete == (Deleted /\ PipelinesOver) => ~file

\* C38: every key of the registry maps to a set that is not empty, and a
\* channel whose close event has been handled is in the set of no key.
C38_RegistryWellFormed ==
    \A u \in DOMAIN clients :
        /\ clients[u] # {}
        /\ \A ch \in clients[u] : ready[ch] # "CLOSED"

\* A channel of the user got the row of the user's job and its close event
\* was handled: the user's key went with it, while a channel of the other
\* identity is registered.
C38_Witness ==
    /\ Exists
    /\ \E a, b \in Channels :
        /\ ready[a] = "CLOSED" /\ received[a] = JobUpdate(job)
        /\ User \notin DOMAIN clients
        /\ ClientsOf("user2") = {b}
====
